---- MODULE Spec2Model ----
(***************************************************************************)
(* Model of claude-max-api-proxy.                                          *)
(*                                                                         *)
(*   Spec     the OpenAI-compatible route handler (handleChatCompletions,  *)
(*            handleStreamingResponse, handleNonStreamingResponse), the    *)
(*            upstream client (callAnthropic, callAnthropicStream) and     *)
(*            the credential cache (getValidCredentials, isValid).         *)
(*   SpecDecode  the same handler and client with credentials that never   *)
(*            expire and an unchanging environment: the stream decoder.    *)
(*   SpecSub  the subprocess line-protocol reader (ClaudeSubprocess).      *)
(*                                                                         *)
(* Text is modelled as a sequence of atoms.  An atom is either a single    *)
(* character that the code inspects ("\n", " ") or an opaque run of        *)
(* characters that the code only ever moves around as a whole (the         *)
(* "data: " prefix, one JSON document).  Chunk boundaries fall between     *)
(* atoms, so a line can be cut between its prefix and its payload, or      *)
(* between its payload and its newline.                                    *)
(***************************************************************************)
EXTENDS Integers, Sequences, FiniteSets, TLC

(***************************************************************************)
(* Bounds of the model.                                                    *)
(***************************************************************************)
MaxChunks == 2      \* upstream reads that deliver data, per request
MaxMsgs == 2        \* messages in one request body
MaxTicks == 1       \* clock advances (of five minutes each)
MaxData == 2        \* stdout chunks of one child process

(***************************************************************************)
(* Generic sequence helpers.                                               *)
(***************************************************************************)
RECURSIVE SeqsUpTo(_, _)
SeqsUpTo(S, n) ==
  IF n = 0 THEN {<<>>}
  ELSE LET shorter == SeqsUpTo(S, n - 1)
       IN shorter \cup {Append(s, x) : s \in {t \in shorter : Len(t) = n - 1}, x \in S}

Last(s) == s[Len(s)]
Front(s) == SubSeq(s, 1, Len(s) - 1)

NL == "\n"

\* String.prototype.split("\n"): the pieces between the separators, always
\* one more piece than there are separators.
RECURSIVE SplitNL(_)
SplitNL(s) ==
  IF \A i \in 1..Len(s) : s[i] # NL THEN <<s>>
  ELSE LET i == CHOOSE k \in 1..Len(s) :
                  s[k] = NL /\ \A j \in 1..(k - 1) : s[j] # NL
       IN <<SubSeq(s, 1, i - 1)>> \o SplitNL(SubSeq(s, i + 1, Len(s)))

(***************************************************************************)
(* Credentials (auth/credentials.ts) and the cache of the upstream client. *)
(* null is the record with the empty token; an undefined expiresAt is      *)
(* hasExpiry = FALSE.                                                      *)
(***************************************************************************)
FiveMinutes == 5 * 60 * 1000

NoCreds == [accessToken |-> "", hasExpiry |-> FALSE, expiresAt |-> 0]

IsNull(c) == c.accessToken = ""

Instants == {k * FiveMinutes : k \in 0..(MaxTicks + 2)}

\* What the credential sources can hold: nothing, a token without expiry,
\* or an OAuth token with a numeric expiry.
StoreValues ==
  {NoCreds}
    \cup {[accessToken |-> "tok", hasExpiry |-> FALSE, expiresAt |-> 0]}
    \cup {[accessToken |-> "oat", hasExpiry |-> TRUE, expiresAt |-> e] : e \in Instants}

\* isValid: !creds.expiresAt is true for undefined and for 0.
isValid(creds, t) ==
  IF ~creds.hasExpiry \/ creds.expiresAt = 0 THEN TRUE
  ELSE creds.expiresAt > t + FiveMinutes

\* getValidCredentials without its cache: the sources are consulted by
\* every call.
getValidCredentials_noCache(cache, src, t) ==
  IF IsNull(src)
    THEN [err |-> "nocreds", creds |-> NoCreds, cache |-> cache, consulted |-> TRUE]
  ELSE IF ~isValid(src, t)
    THEN [err |-> "expired", creds |-> NoCreds, cache |-> cache, consulted |-> TRUE]
  ELSE [err |-> "", creds |-> src, cache |-> src, consulted |-> TRUE]

\* getValidCredentials without the test of what the sources returned.
getValidCredentials_noExpiryTest(cache, src, t) ==
  IF ~IsNull(cache) /\ isValid(cache, t)
    THEN [err |-> "", creds |-> cache, cache |-> cache, consulted |-> FALSE]
  ELSE IF IsNull(src)
    THEN [err |-> "nocreds", creds |-> NoCreds, cache |-> cache, consulted |-> TRUE]
  ELSE [err |-> "", creds |-> src, cache |-> src, consulted |-> TRUE]

\* getValidCredentials: the error thrown (or ""), the credentials returned,
\* the cache afterwards and whether the sources were consulted.
getValidCredentials(cache, src, t) ==
  IF ~IsNull(cache) /\ isValid(cache, t)
    THEN [err |-> "", creds |-> cache, cache |-> cache, consulted |-> FALSE]
  ELSE IF IsNull(src)
    THEN [err |-> "nocreds", creds |-> NoCreds, cache |-> cache, consulted |-> TRUE]
  ELSE IF ~isValid(src, t)
    THEN [err |-> "expired", creds |-> NoCreds, cache |-> cache, consulted |-> TRUE]
  ELSE [err |-> "", creds |-> src, cache |-> src, consulted |-> TRUE]

(***************************************************************************)
(* Request bodies.  body.messages is an array of messages, or one of the   *)
(* values that are not arrays.                                             *)
(***************************************************************************)
Roles == {"system", "user", "assistant", "tool"}
Contents == {"p", "q"}
Msg == [role : Roles, content : Contents]

\* The shapes of body.messages: undefined or null ("missing"); a string,
\* number or plain object ("notArray"); a non-array object that has a last
\* indexed element whose content is not a string ("arrayLike", for example
\* {"length": 1, "0": {"content": 1}}); an array of messages ("array").
NonArrays == {"missing", "notArray", "arrayLike"}

MessagesValues ==
  {[kind |-> k, items |-> <<>>] : k \in NonArrays}
    \cup {[kind |-> "array", items |-> s] : s \in SeqsUpTo(Msg, MaxMsgs)}

Bodies == [stream : BOOLEAN, messages : MessagesValues]

\* logRequest: lastMsg?.content?.slice(0, 100) throws a TypeError when the
\* content of the last element exists and has no slice method.  The
\* contents of the messages of an array are strings in this model.
logRequestThrows(b) == b.messages.kind = "arrayLike"

\* The validation of handleChatCompletions:
\* !body.messages || !Array.isArray(body.messages) || body.messages.length === 0
InvalidMessages(m) ==
  m.kind = "missing" \/ m.kind # "array" \/ Len(m.items) = 0

\* What a request's messages field is, for the record of the request.
ShapeOf(m) ==
  IF m.kind # "array" THEN m.kind
  ELSE IF Len(m.items) = 0 THEN "empty" ELSE "array"

Placeholder == [role |-> "user", content |-> "(continue)"]

IsTurn(m) == m.role = "user" \/ m.role = "assistant"
IsSystem(m) == m.role = "system"

\* system = system ? `${system}\n\n${msg.content}` : msg.content
RECURSIVE JoinSystem(_)
JoinSystem(s) ==
  IF s = <<>> THEN <<>>
  ELSE IF Len(s) = 1 THEN <<s[1].content>>
  ELSE JoinSystem(Front(s)) \o <<NL, NL, Last(s).content>>

\* convertMessages without the unshift of the placeholder.
convertMessages_noUnshift(messages) ==
  [system |-> JoinSystem(SelectSeq(messages, IsSystem)),
   messages |-> SelectSeq(messages, IsTurn)]

convertMessages(messages) ==
  LET anthropicMessages == SelectSeq(messages, IsTurn)
  IN [system |-> JoinSystem(SelectSeq(messages, IsSystem)),
      messages |->
        IF Len(anthropicMessages) > 0 /\ anthropicMessages[1].role = "assistant"
          THEN <<Placeholder>> \o anthropicMessages
          ELSE anthropicMessages]

(***************************************************************************)
(* The downstream response object (express Response).                      *)
(***************************************************************************)
NoJson == [kind |-> "none", code |-> "", type |-> "", message |-> ""]

ErrorJson(code, type, message) ==
  [kind |-> "error", code |-> code, type |-> type, message |-> message]

CompletionJson == [kind |-> "completion", code |-> "", type |-> "", message |-> ""]

\* A fresh response: statusCode defaults to 200, nothing sent.
NewRes ==
  [statusCode |-> 200, headersSent |-> FALSE, contentType |-> "none",
   frames |-> <<>>, json |-> NoJson, ended |-> FALSE]

Frame(t, text) == [t |-> t, text |-> text]

\* res.write(frame)
Write(resp, frame) == [resp EXCEPT !.frames = Append(@, frame)]

\* res.end()
End(resp) == [resp EXCEPT !.ended = TRUE]

\* res.status(code).json(obj): sends the headers and the body, ends the
\* response.
StatusJson(resp, code, obj) ==
  [resp EXCEPT !.statusCode = code, !.headersSent = TRUE,
               !.contentType = "json", !.json = obj, !.ended = TRUE]

\* handleStreamingResponse up to the upstream call: the SSE headers are
\* set and flushed (status 200), then the ":ok" comment is written.
StreamOpen(resp) ==
  Write([resp EXCEPT !.headersSent = TRUE, !.contentType = "sse"],
        Frame("ok", ""))

\* A catch that answers like the catch of handleChatCompletions.
StreamCatch_as500(resp, message) ==
  StatusJson(resp, 500, ErrorJson("null", "server_error", message))

\* The catch of handleStreamingResponse.
StreamCatch(resp, message) ==
  IF ~resp.ended THEN End(Write(resp, Frame("error", message))) ELSE resp

\* The catch of handleNonStreamingResponse.
NonStreamCatch(resp, message) ==
  StatusJson(resp, 500, ErrorJson("null", "server_error", message))

\* The 400 answer of handleChatCompletions.
InvalidAnswer(resp) ==
  StatusJson(resp, 400,
             ErrorJson("invalid_messages", "invalid_request_error",
                       "messages is required and must be a non-empty array"))

(***************************************************************************)
(* The upstream byte stream.  "D" is the prefix "data: ", "E" an           *)
(* "event: ..." field; the other atoms are the texts between the prefix    *)
(* and the newline.                                                        *)
(***************************************************************************)
\* JSON documents and what JSON.parse yields for them.
Events ==
  [ms  |-> [type |-> "message_start", text |-> "", model |-> "upstream", tokens |-> 3],
   ca  |-> [type |-> "content_block_delta", text |-> "a", model |-> "", tokens |-> 0],
   cb  |-> [type |-> "content_block_delta", text |-> "b", model |-> "", tokens |-> 0],
   ce  |-> [type |-> "content_block_delta", text |-> "", model |-> "", tokens |-> 0],
   md  |-> [type |-> "message_delta", text |-> "", model |-> "", tokens |-> 5],
   pg  |-> [type |-> "ping", text |-> "", model |-> "", tokens |-> 0]]

JsonAtoms == DOMAIN Events

\* "xx" is text that is not JSON, "[DONE]" the sentinel.
UpAtoms == JsonAtoms \cup {"D", "E", "xx", "[DONE]", NL}

\* The session state that callAnthropicStream and the two callbacks of
\* handleStreamingResponse keep for one request.
NewSession ==
  [buffer |-> <<>>, model |-> "requested", inputTokens |-> 0, outputTokens |-> 0,
   isFirst |-> TRUE, fullText |-> <<>>]

\* onChunk that never clears isFirst.
onChunk_keepFirst(st, text) ==
  LET s1 == [st.s EXCEPT !.fullText = Append(@, text)]
      r1 == IF st.s.isFirst THEN Write(st.r, Frame("role", "")) ELSE st.r
  IN [s |-> s1, r |-> Write(r1, Frame("content", text))]

\* onChunk of handleStreamingResponse; st is [s: session, r: response].
onChunk(st, text) ==
  LET s1 == [st.s EXCEPT !.fullText = Append(@, text)]
      r1 == IF st.s.isFirst THEN Write(st.r, Frame("role", "")) ELSE st.r
  IN [s |-> [s1 EXCEPT !.isFirst = FALSE],
      r |-> Write(r1, Frame("content", text))]

\* onDone that is also run by a second end-of-stream notification.
onDone_twice(resp) ==
  LET once == Write(Write(resp, Frame("finish", "stop")), Frame("[DONE]", ""))
  IN End(Write(Write(once, Frame("finish", "stop")), Frame("[DONE]", "")))

\* onDone of handleStreamingResponse.
onDone(resp) ==
  End(Write(Write(resp, Frame("finish", "stop")), Frame("[DONE]", "")))

\* A loop body without the try/catch around JSON.parse: a line that does
\* not parse throws into the catch of handleStreamingResponse.
HandleLine_noCatch(st, line) ==
  IF Len(line) = 0 \/ line[1] # "D" THEN st
  ELSE LET data == Tail(line)
       IN IF data = <<"[DONE]">> THEN st
          ELSE IF Len(data) # 1 \/ data[1] \notin JsonAtoms
            THEN [st EXCEPT !.r = StreamCatch(@, "parse")]
          ELSE LET event == Events[data[1]]
               IN IF event.type = "message_start"
                    THEN [st EXCEPT
                           !.s.model = IF event.model # "" THEN event.model ELSE @,
                           !.s.inputTokens = event.tokens]
                  ELSE IF event.type = "content_block_delta"
                    THEN IF event.text # "" THEN onChunk(st, event.text) ELSE st
                  ELSE IF event.type = "message_delta"
                    THEN [st EXCEPT !.s.outputTokens = event.tokens]
                  ELSE st

\* The body of the for loop of callAnthropicStream for one line.
HandleLine(st, line) ==
  IF Len(line) = 0 \/ line[1] # "D" THEN st          \* !line.startsWith("data: ")
  ELSE LET data == Tail(line)
       IN IF data = <<"[DONE]">> THEN st
          ELSE IF Len(data) # 1 \/ data[1] \notin JsonAtoms THEN st   \* JSON.parse throws
          ELSE LET event == Events[data[1]]
               IN IF event.type = "message_start"
                    THEN [st EXCEPT   \* event.message?.model || model
                           !.s.model = IF event.model # "" THEN event.model ELSE @,
                           !.s.inputTokens = event.tokens]
                  ELSE IF event.type = "content_block_delta"
                    THEN IF event.text # "" THEN onChunk(st, event.text) ELSE st
                  ELSE IF event.type = "message_delta"
                    THEN [st EXCEPT !.s.outputTokens = event.tokens]
                  ELSE st

RECURSIVE HandleLines(_, _)
HandleLines(st, lines) ==
  IF lines = <<>> THEN st
  ELSE HandleLines(HandleLine(st, Head(lines)), Tail(lines))

\* A read loop that forgets the incomplete last line.
ReadChunkStep_dropTail(st, chunk) ==
  LET lines == SplitNL(st.s.buffer \o chunk)
  IN HandleLines([st EXCEPT !.s.buffer = <<>>], Front(lines))

\* A read loop that leaves the lines it has handled in the buffer.
ReadChunkStep_keepBuffer(st, chunk) ==
  LET lines == SplitNL(st.s.buffer \o chunk)
  IN HandleLines([st EXCEPT !.s.buffer = st.s.buffer \o chunk], Front(lines))

\* One iteration of the read loop of callAnthropicStream that got a chunk.
ReadChunkStep(st, chunk) ==
  LET lines == SplitNL(st.s.buffer \o chunk)
  IN HandleLines([st EXCEPT !.s.buffer = Last(lines)], Front(lines))

\* Chunks the upstream connection can deliver.
WholeLines ==
  {<<"D", j, NL>> : j \in JsonAtoms}
    \cup {<<"D", "xx", NL>>, <<"D", "[DONE]", NL>>, <<"E", NL>>, <<NL>>}

Chunks ==
  WholeLines
    \cup {<<"D", "ca">>, <<"D">>, <<"cb", NL>>, <<"ca">>,
          <<"D", "ca", NL, "D", "cb", NL>>, <<NL, "D", "ca", NL, "D", "cb">>}


(***************************************************************************)
(* The subprocess reader (ClaudeSubprocess).  The text of the child's      *)
(* output is a sequence of atoms: the characters the reader's patterns     *)
(* tell apart, and one opaque atom per JSON object the CLI prints.         *)
(***************************************************************************)
ESC == "ESC"    \* \x1B
BEL == "BEL"    \* \x07

\* The JSON objects of the CLI and the shapes the type guards look for.
Docs ==
  [jd  |-> [delta |-> TRUE,  assistant |-> FALSE, result |-> FALSE],
   ja  |-> [delta |-> FALSE, assistant |-> TRUE,  result |-> FALSE],
   jr  |-> [delta |-> FALSE, assistant |-> FALSE, result |-> TRUE],
   jda |-> [delta |-> TRUE,  assistant |-> TRUE,  result |-> FALSE],
   jar |-> [delta |-> FALSE, assistant |-> TRUE,  result |-> TRUE],
   jo  |-> [delta |-> FALSE, assistant |-> FALSE, result |-> FALSE]]

DocAtoms == DOMAIN Docs

\* A JSON object without its opening brace: what is left of it when a
\* pattern has consumed the brace.
Beheaded ==
  [jd |-> "~jd", ja |-> "~ja", jr |-> "~jr", jda |-> "~jda", jar |-> "~jar",
   jo |-> "~jo"]

\* Character classes of the patterns of stripAnsi.  An object starts with
\* "{", which is in [@-~] only.
IsParamChar(a) == a \in {"0", ";"}                        \* [0-?]
IsInterChar(a) == a = " "                                 \* [ -/]
IsFinalChar(a) == a \in {"m", "H", "[", "]"} \cup DocAtoms  \* [@-~]
IsC1Char(a) == a \in {"H", "]"}                           \* [@-Z\\-_]
IsDigit(a) == a = "0"                                     \* \d
IsLetter(a) == a \in {"m", "H"}                           \* [A-Za-z]
IsSpace(a) == a \in {" ", NL}                             \* what trim() removes

RECURSIVE SkipParams(_, _)
SkipParams(s, i) ==
  IF i <= Len(s) /\ IsParamChar(s[i]) THEN SkipParams(s, i + 1) ELSE i

RECURSIVE SkipInters(_, _)
SkipInters(s, i) ==
  IF i <= Len(s) /\ IsInterChar(s[i]) THEN SkipInters(s, i + 1) ELSE i

RECURSIVE SkipDigits(_, _)
SkipDigits(s, i) ==
  IF i <= Len(s) /\ IsDigit(s[i]) THEN SkipDigits(s, i + 1) ELSE i

RECURSIVE SkipDigitsSemis(_, _)
SkipDigitsSemis(s, i) ==
  IF i <= Len(s) /\ (IsDigit(s[i]) \/ s[i] = ";") THEN SkipDigitsSemis(s, i + 1)
  ELSE i

\* What a match that ends with atom a leaves of it.
Leftover(a) == IF a \in DocAtoms THEN <<Beheaded[a]>> ELSE <<>>

\* /\x1B(?:[@-Z\\-_]|\[[0-?]*[ -/]*[@-~])/ at the head of s: the index of
\* the last atom of the match, or 0.
EscMatch(s) ==
  IF Len(s) < 2 \/ s[1] # ESC THEN 0
  ELSE IF IsC1Char(s[2]) THEN 2
  ELSE IF s[2] = "["
    THEN LET j == SkipInters(s, SkipParams(s, 3))
         IN IF j <= Len(s) /\ IsFinalChar(s[j]) THEN j ELSE 0
  ELSE 0

RECURSIVE StripEsc(_)
StripEsc(s) ==
  IF s = <<>> THEN <<>>
  ELSE LET j == EscMatch(s)
       IN IF j > 0 THEN Leftover(s[j]) \o StripEsc(SubSeq(s, j + 1, Len(s)))
          ELSE <<Head(s)>> \o StripEsc(Tail(s))

\* /\[\d*[A-Za-z]/ at the head of s.
BracketMatch(s) ==
  IF Len(s) < 2 \/ s[1] # "[" THEN 0
  ELSE LET j == SkipDigits(s, 2)
       IN IF j <= Len(s) /\ IsLetter(s[j]) THEN j ELSE 0

RECURSIVE StripBracket(_)
StripBracket(s) ==
  IF s = <<>> THEN <<>>
  ELSE LET j == BracketMatch(s)
       IN IF j > 0 THEN StripBracket(SubSeq(s, j + 1, Len(s)))
          ELSE <<Head(s)>> \o StripBracket(Tail(s))

\* /\][\d;]*[^\x07]*\x07/ at the head of s: from "]" to the first BEL.
OscMatch(s) ==
  IF s = <<>> \/ s[1] # "]" \/ \A i \in 2..Len(s) : s[i] # BEL THEN 0
  ELSE CHOOSE i \in 2..Len(s) : s[i] = BEL /\ \A k \in 2..(i - 1) : s[k] # BEL

RECURSIVE StripOsc(_)
StripOsc(s) ==
  IF s = <<>> THEN <<>>
  ELSE LET j == OscMatch(s)
       IN IF j > 0 THEN StripOsc(SubSeq(s, j + 1, Len(s)))
          ELSE <<Head(s)>> \o StripOsc(Tail(s))

stripAnsi(str) == StripOsc(StripBracket(StripEsc(str)))

\* String.prototype.trim
RECURSIVE TrimLeft(_)
TrimLeft(s) == IF s # <<>> /\ IsSpace(Head(s)) THEN TrimLeft(Tail(s)) ELSE s

RECURSIVE TrimRight(_)
TrimRight(s) == IF s # <<>> /\ IsSpace(Last(s)) THEN TrimRight(Front(s)) ELSE s

Trim(s) == TrimRight(TrimLeft(s))

\* JSON.parse succeeds: on one object, on the number 0, and on an array
\* that is empty or holds one value (the alphabet has no comma).
RECURSIVE IsJson(_)
IsJson(s) ==
  \/ Len(s) = 1 /\ (s[1] \in DocAtoms \/ s[1] = "0")
  \/ /\ Len(s) >= 2
     /\ s[1] = "["
     /\ Last(s) = "]"
     /\ LET inner == Trim(SubSeq(s, 2, Len(s) - 1))
        IN inner = <<>> \/ IsJson(inner)

\* The type guards of types/claude-cli.
isContentDelta(message) == Len(message) = 1 /\ message[1] \in DocAtoms /\ Docs[message[1]].delta
isAssistantMessage(message) == Len(message) = 1 /\ message[1] \in DocAtoms /\ Docs[message[1]].assistant
isResultMessage(message) == Len(message) = 1 /\ message[1] \in DocAtoms /\ Docs[message[1]].result

Event(t, arg) == [t |-> t, arg |-> arg]

\* A loop body that tests every guard: one event per shape that matches.
LineEvents_everyMatch(line) ==
  LET trimmed == Trim(line)
  IN IF trimmed = <<>> THEN <<>>
     ELSE IF ~IsJson(trimmed) THEN <<Event("raw", trimmed)>>
     ELSE <<Event("message", trimmed)>>
            \o (IF isContentDelta(trimmed) THEN <<Event("content_delta", trimmed)>>
                ELSE <<>>)
            \o (IF isAssistantMessage(trimmed) THEN <<Event("assistant", trimmed)>>
                ELSE <<>>)
            \o (IF isResultMessage(trimmed) THEN <<Event("result", trimmed)>>
                ELSE <<>>)

\* The body of the for loop of processBuffer: the events one line emits.
LineEvents(line) ==
  LET trimmed == Trim(line)
  IN IF trimmed = <<>> THEN <<>>
     ELSE IF ~IsJson(trimmed) THEN <<Event("raw", trimmed)>>
     ELSE <<Event("message", trimmed)>>
            \o (IF isContentDelta(trimmed) THEN <<Event("content_delta", trimmed)>>
                ELSE IF isAssistantMessage(trimmed) THEN <<Event("assistant", trimmed)>>
                ELSE IF isResultMessage(trimmed) THEN <<Event("result", trimmed)>>
                ELSE <<>>)

RECURSIVE LinesEvents(_)
LinesEvents(lines) ==
  IF lines = <<>> THEN <<>>
  ELSE LineEvents(Head(lines)) \o LinesEvents(Tail(lines))

\* processBuffer without the pop: the whole text stays in the buffer.
processBuffer_noPop(buf) ==
  LET lines == SplitNL(buf)
  IN [buffer |-> buf, events |-> LinesEvents(Front(lines))]

\* processBuffer: the buffer it leaves and the events it emits.
processBuffer(buf) ==
  LET lines == SplitNL(buf)
  IN [buffer |-> Last(lines), events |-> LinesEvents(Front(lines))]

\* Chunks the child's stdout can deliver.
ProcChunks ==
  {<<d, NL>> : d \in DocAtoms}
    \cup {<<"jd">>, <<"jr">>, <<"m">>, <<NL>>, <<" ">>, <<"m", NL>>, <<"jd", NL, "jr">>,
          <<"ja", NL, "jr", NL>>, <<" ", "jo", " ", NL>>,
          <<ESC, "[", "0", "m", "jd", NL>>, <<ESC, "[">>, <<"0", "m", "jr", NL>>,
          <<ESC, "[", "jd", NL>>, <<ESC, "H", "jr", NL>>,
          <<"]", "0", ";", "m", BEL, "ja", NL>>,
          <<"[", "0", "]", NL>>, <<"[", "m", "]", NL>>}

\* The stdout "data" handler.
onStdoutData(buf, chunk) ==
  LET data == stripAnsi(chunk)
  IN IF Trim(data) # <<>> THEN processBuffer(buf \o data)
     ELSE [buffer |-> buf, events |-> <<>>]

\* The "close" handler, but for clearTimeout.
onClose(buf, code) ==
  LET p == IF Trim(buf) # <<>> THEN processBuffer(buf)
           ELSE [buffer |-> buf, events |-> <<>>]
  IN [buffer |-> p.buffer, events |-> p.events \o <<Event("close", <<code>>)>>]

(***************************************************************************)
(* State.                                                                  *)
(***************************************************************************)
Requests == {1, 2}

VARIABLES
  now,          \* Date.now()
  store,        \* what getCredentials() returns when it is called
  cachedCreds,  \* the process-wide cache of the upstream client
  pc,           \* per request: where its handler is suspended
  stream,       \* per request: body.stream === true
  shape,        \* per request: the shape of body.messages
  res,          \* per request: the response object
  connected,    \* per request: the client's connection is still open
  session,      \* per request: the locals of the streaming session
  upReq,        \* per request: the upstream request in flight (system and
                \* messages of its body, the body.messages it was made from,
                \* and the token of its headers)
  upRecv,       \* per request: all upstream text received so far
  nRead,        \* per request: number of chunks read
  failure,      \* per request: the error thrown while handling it, or ""
  credCalls,    \* per request: calls of getValidCredentials
  fetchCalls    \* per request: calls of fetch

envVars == <<now, store>>
reqVars == <<pc, stream, shape, res, connected, session, upReq, upRecv, nRead,
             failure, credCalls, fetchCalls>>
httpVars == <<now, store, cachedCreds, pc, stream, shape, res, connected, session,
              upReq, upRecv, nRead, failure, credCalls, fetchCalls>>

\* The reader of one child process.
VARIABLES
  process,      \* this.process: "null" or the child's handle
  child,        \* the child itself: none, running, failing (it could not be
                \* spawned), errored, exited (its streams still open), closed
  procBuffer,   \* this.buffer
  timeoutId,    \* this.timeoutId: "null", an armed timer, or one that has fired
  isKilled,     \* this.isKilled
  emitted,      \* the events emitted so far, in order
  signals,      \* the calls of process.kill so far, in order
  started,      \* the promise start() returned
  stdoutAll,    \* all text the child has written to stdout so far
  nData,        \* number of stdout chunks delivered
  exitCode      \* the code the child ended with, "none" while it has not

subVars == <<process, child, procBuffer, timeoutId, isKilled, emitted, signals,
             started, stdoutAll, nData, exitCode>>

vars == <<httpVars, subVars>>

NoReq ==
  [sent |-> FALSE, stream |-> FALSE, system |-> <<>>, messages |-> <<>>,
   from |-> <<>>, token |-> ""]

InitReader ==
  /\ process = "null"
  /\ child = "none"
  /\ procBuffer = <<>>
  /\ timeoutId = "null"
  /\ isKilled = FALSE
  /\ emitted = <<>>
  /\ signals = <<>>
  /\ started = "pending"
  /\ stdoutAll = <<>>
  /\ nData = 0
  /\ exitCode = "none"

InitHttp ==
  /\ now = 0
  /\ store \in StoreValues
  /\ cachedCreds = NoCreds
  /\ pc = [r \in Requests |-> "idle"]
  /\ stream = [r \in Requests |-> FALSE]
  /\ shape = [r \in Requests |-> "none"]
  /\ res = [r \in Requests |-> NewRes]
  /\ connected = [r \in Requests |-> TRUE]
  /\ session = [r \in Requests |-> NewSession]
  /\ upReq = [r \in Requests |-> NoReq]
  /\ upRecv = [r \in Requests |-> <<>>]
  /\ nRead = [r \in Requests |-> 0]
  /\ failure = [r \in Requests |-> ""]
  /\ credCalls = [r \in Requests |-> 0]
  /\ fetchCalls = [r \in Requests |-> 0]

Init == InitHttp /\ InitReader

\* The reader alone: no request is ever received.
InitSub == Init /\ store = NoCreds

(***************************************************************************)
(* handleChatCompletions from its entry to its first suspension: the       *)
(* logging, the validation, convertMessages, and then                      *)
(* handleStreamingResponse or handleNonStreamingResponse up to the await   *)
(* of fetch.  getValidCredentials runs synchronously inside that call.     *)
(* The result says where the handler is afterwards.                        *)
(***************************************************************************)
handleChatCompletions(resp, b, cache, src, t) ==
  LET idle == [pc |-> "done", res |-> resp, cache |-> cache, upReq |-> NoReq,
               failure |-> "", credCalls |-> 0, fetchCalls |-> 0]
      g == getValidCredentials(cache, src, t)
      conv == convertMessages(b.messages.items)
      call == [idle EXCEPT !.cache = g.cache, !.credCalls = 1]
      sent == [call EXCEPT !.pc = "fetch", !.fetchCalls = 1,
                           !.upReq = [sent |-> TRUE, stream |-> b.stream,
                                      system |-> conv.system,
                                      messages |-> conv.messages,
                                      from |-> b.messages.items,
                                      token |-> g.creds.accessToken]]
  IN IF logRequestThrows(b)
       \* thrown outside the try block: the handler's promise rejects and
       \* the handler has written nothing
       THEN [idle EXCEPT !.pc = "rejected", !.failure = "TypeError"]
     ELSE IF InvalidMessages(b.messages)
       THEN [idle EXCEPT !.res = InvalidAnswer(resp)]
     ELSE IF b.stream
       THEN IF g.err # ""
              THEN [call EXCEPT !.res = StreamCatch(StreamOpen(resp), g.err),
                                !.failure = g.err]
              ELSE [sent EXCEPT !.res = StreamOpen(resp)]
     ELSE IF g.err # ""
       THEN [call EXCEPT !.res = NonStreamCatch(resp, g.err), !.failure = g.err]
     ELSE sent

Receive(r) ==
  /\ pc[r] = "idle"
  /\ \E b \in Bodies :
       LET h == handleChatCompletions(res[r], b, cachedCreds, store, now)
       IN /\ pc' = [pc EXCEPT ![r] = h.pc]
          /\ stream' = [stream EXCEPT ![r] = b.stream]
          /\ shape' = [shape EXCEPT ![r] = ShapeOf(b.messages)]
          /\ res' = [res EXCEPT ![r] = h.res]
          /\ cachedCreds' = h.cache
          /\ upReq' = [upReq EXCEPT ![r] = h.upReq]
          /\ failure' = [failure EXCEPT ![r] = h.failure]
          /\ credCalls' = [credCalls EXCEPT ![r] = h.credCalls]
          /\ fetchCalls' = [fetchCalls EXCEPT ![r] = h.fetchCalls]
  /\ UNCHANGED <<now, store, connected, session, upRecv, nRead>>
  /\ UNCHANGED subVars

(***************************************************************************)
(* The await of fetch returns.  Streaming: a network failure, a non-2xx    *)
(* status and a response without body throw into the catch of              *)
(* handleStreamingResponse; otherwise the read loop starts.                *)
(* Non-streaming: a failure (also of response.json()) is answered by the   *)
(* catch of handleNonStreamingResponse, a success by res.json().           *)
(***************************************************************************)
StreamFetchErrors == {"network", "status", "nobody"}
NonStreamFetchErrors == {"network", "status", "badjson"}

FetchFails(r) ==
  /\ pc[r] = "fetch"
  /\ \E e \in (IF stream[r] THEN StreamFetchErrors ELSE NonStreamFetchErrors) :
       /\ failure' = [failure EXCEPT ![r] = e]
       /\ res' = [res EXCEPT ![r] = IF stream[r] THEN StreamCatch(@, e)
                                    ELSE NonStreamCatch(@, e)]
  /\ pc' = [pc EXCEPT ![r] = "done"]
  /\ upReq' = [upReq EXCEPT ![r] = NoReq]
  /\ UNCHANGED <<now, store, cachedCreds, stream, shape, connected, session, upRecv,
                 nRead, credCalls, fetchCalls>>
  /\ UNCHANGED subVars

FetchOk(r) ==
  /\ pc[r] = "fetch"
  /\ IF stream[r]
       THEN /\ pc' = [pc EXCEPT ![r] = "read"]
            /\ res' = res
       ELSE /\ pc' = [pc EXCEPT ![r] = "done"]
            /\ res' = [res EXCEPT ![r] = StatusJson(@, @.statusCode, CompletionJson)]
  /\ upReq' = [upReq EXCEPT ![r] = NoReq]
  /\ UNCHANGED <<now, store, cachedCreds, stream, shape, connected, session, upRecv,
                 nRead, failure, credCalls, fetchCalls>>
  /\ UNCHANGED subVars

(***************************************************************************)
(* The read loop of callAnthropicStream: reader.read() yields a chunk,     *)
(* reports the end of the stream, or throws.                               *)
(***************************************************************************)
\* A read loop whose first-chunk flag is one variable of the module, shared
\* by all requests.
ReadChunk_sharedFlag(r) ==
  /\ pc[r] = "read"
  /\ nRead[r] < MaxChunks
  /\ \E chunk \in Chunks :
       LET own == [session[r] EXCEPT !.isFirst = session[1].isFirst]
           st == ReadChunkStep([s |-> own, r |-> res[r]], chunk)
       IN /\ session' = [q \in Requests |->
                          IF q = r THEN st.s
                          ELSE [session[q] EXCEPT !.isFirst = st.s.isFirst]]
          /\ res' = [res EXCEPT ![r] = st.r]
          /\ upRecv' = [upRecv EXCEPT ![r] = @ \o chunk]
  /\ nRead' = [nRead EXCEPT ![r] = @ + 1]
  /\ UNCHANGED <<now, store, cachedCreds, pc, stream, shape, connected, upReq,
                 failure, credCalls, fetchCalls>>
  /\ UNCHANGED subVars

ReadChunk(r) ==
  /\ pc[r] = "read"
  /\ nRead[r] < MaxChunks
  /\ \E chunk \in Chunks :
       LET st == ReadChunkStep([s |-> session[r], r |-> res[r]], chunk)
       IN /\ session' = [session EXCEPT ![r] = st.s]
          /\ res' = [res EXCEPT ![r] = st.r]
          /\ upRecv' = [upRecv EXCEPT ![r] = @ \o chunk]
  /\ nRead' = [nRead EXCEPT ![r] = @ + 1]
  /\ UNCHANGED <<now, store, cachedCreds, pc, stream, shape, connected, upReq,
                 failure, credCalls, fetchCalls>>
  /\ UNCHANGED subVars

ReadDone(r) ==
  /\ pc[r] = "read"
  /\ res' = [res EXCEPT ![r] = onDone(@)]
  /\ pc' = [pc EXCEPT ![r] = "done"]
  /\ UNCHANGED <<now, store, cachedCreds, stream, shape, connected, session, upReq,
                 upRecv, nRead, failure, credCalls, fetchCalls>>
  /\ UNCHANGED subVars

ReadError(r) ==
  /\ pc[r] = "read"
  /\ failure' = [failure EXCEPT ![r] = "read"]
  /\ res' = [res EXCEPT ![r] = StreamCatch(@, "read")]
  /\ pc' = [pc EXCEPT ![r] = "done"]
  /\ UNCHANGED <<now, store, cachedCreds, stream, shape, connected, session, upReq,
                 upRecv, nRead, credCalls, fetchCalls>>
  /\ UNCHANGED subVars

(***************************************************************************)
(* The client closes its connection while its request is being handled.    *)
(* No code of the handler listens for it: nothing but the connection       *)
(* changes.                                                                *)
(***************************************************************************)
Disconnect(r) ==
  /\ pc[r] \in {"fetch", "read"}
  /\ connected[r]
  /\ connected' = [connected EXCEPT ![r] = FALSE]
  /\ UNCHANGED <<now, store, cachedCreds, pc, stream, shape, res, session, upReq,
                 upRecv, nRead, failure, credCalls, fetchCalls>>
  /\ UNCHANGED subVars

(***************************************************************************)
(* The next request arrives with fresh request and response objects.       *)
(***************************************************************************)
NextRequest(r) ==
  /\ pc[r] \in {"done", "rejected"}
  /\ pc' = [pc EXCEPT ![r] = "idle"]
  /\ stream' = [stream EXCEPT ![r] = FALSE]
  /\ shape' = [shape EXCEPT ![r] = "none"]
  /\ res' = [res EXCEPT ![r] = NewRes]
  /\ connected' = [connected EXCEPT ![r] = TRUE]
  /\ session' = [session EXCEPT ![r] = NewSession]
  /\ upRecv' = [upRecv EXCEPT ![r] = <<>>]
  /\ nRead' = [nRead EXCEPT ![r] = 0]
  /\ failure' = [failure EXCEPT ![r] = ""]
  /\ credCalls' = [credCalls EXCEPT ![r] = 0]
  /\ fetchCalls' = [fetchCalls EXCEPT ![r] = 0]
  /\ UNCHANGED <<now, store, cachedCreds, upReq>>
  /\ UNCHANGED subVars

(***************************************************************************)
(* The environment of the credential provider: the clock advances and the  *)
(* credential sources change.  Credentials and clock are read only inside  *)
(* Receive, so a change while a request is suspended has the effect of the *)
(* same change after it, and only changes between requests are generated.  *)
(***************************************************************************)
AllIdle == \A r \in Requests : pc[r] = "idle"

Tick ==
  /\ AllIdle
  /\ now < MaxTicks * FiveMinutes
  /\ now' = now + FiveMinutes
  /\ UNCHANGED <<store, cachedCreds>>
  /\ UNCHANGED reqVars
  /\ UNCHANGED subVars

StoreChange ==
  /\ AllIdle
  /\ \E v \in StoreValues \ {store} : store' = v
  /\ UNCHANGED <<now, cachedCreds>>
  /\ UNCHANGED reqVars
  /\ UNCHANGED subVars

\* One client request at a time.
Solo == 1

Next ==
  \/ Receive(Solo)
  \/ FetchFails(Solo)
  \/ FetchOk(Solo)
  \/ ReadChunk(Solo)
  \/ ReadDone(Solo)
  \/ ReadError(Solo)
  \/ Disconnect(Solo)
  \/ NextRequest(Solo)
  \/ Tick
  \/ StoreChange

Spec == Init /\ [][Next]_vars

\* The handler and the decoder with credentials that never expire and an
\* environment that does not change.
InitDecode ==
  Init /\ store = [accessToken |-> "tok", hasExpiry |-> FALSE, expiresAt |-> 0]

NextDecode ==
  \/ Receive(Solo)
  \/ FetchFails(Solo)
  \/ FetchOk(Solo)
  \/ ReadChunk(Solo)
  \/ ReadDone(Solo)
  \/ ReadError(Solo)
  \/ Disconnect(Solo)
  \/ NextRequest(Solo)

SpecDecode == InitDecode /\ [][NextDecode]_vars

(***************************************************************************)
(* Two clients at once.  Every handler runs up to its next await and the   *)
(* handlers of the two requests interleave at their awaits.  Both requests *)
(* are streaming requests with one user message, and the upstream delivers *)
(* whole and cut content lines.                                            *)
(***************************************************************************)
PairChunks == {<<"D", "ca", NL>>, <<"D", "cb", NL>>, <<"D", "ca">>, <<NL>>}

PairReceive(r) ==
  /\ Receive(r)
  /\ stream'[r]
  /\ upReq'[r].sent
  /\ upReq'[r].from = <<[role |-> "user", content |-> "p"]>>

PairReadChunk(r) ==
  /\ ReadChunk(r)
  /\ SubSeq(upRecv'[r], Len(upRecv[r]) + 1, Len(upRecv'[r])) \in PairChunks

NextPair ==
  \/ \E r \in Requests : PairReceive(r)
  \/ \E r \in Requests : FetchFails(r)
  \/ \E r \in Requests : FetchOk(r)
  \/ \E r \in Requests : PairReadChunk(r)
  \/ \E r \in Requests : ReadDone(r)
  \/ \E r \in Requests : ReadError(r)
  \/ \E r \in Requests : NextRequest(r)

SpecPair == InitDecode /\ [][NextPair]_vars

(***************************************************************************)
(* The actions of the subprocess reader.                                   *)
(***************************************************************************)
Signals == {"SIGTERM", "SIGKILL"}
ExitCodes == {"0", "1", "null"}

\* The code of a child that could not be spawned: the negated errno.
SpawnErrno == "-2"

\* clearTimeout(): if (this.timeoutId) { clearTimeout(...); this.timeoutId = null }
clearTimeout(id) == "null"

\* process.kill(signal), as recorded: the signal reaches the child only
\* while the child is running.
KillCall(sig, by) == [sig |-> sig, by |-> by, delivered |-> child = "running"]

\* start(): spawn returns a handle (a spawn failure is reported later, by
\* the child's "error" event), the timer is armed, the handlers are
\* registered and the promise is resolved.
Start ==
  /\ process = "null"
  /\ process' = "child"
  /\ \E c \in {"running", "failing"} : child' = c
  /\ timeoutId' = "armed"
  /\ started' = "resolved"
  /\ UNCHANGED <<procBuffer, isKilled, emitted, signals, stdoutAll, nData, exitCode>>
  /\ UNCHANGED httpVars

\* The callback of setTimeout.
Timeout ==
  /\ timeoutId = "armed"
  /\ timeoutId' = "fired"
  /\ IF ~isKilled
       THEN /\ isKilled' = TRUE
            /\ signals' = Append(signals, KillCall("SIGTERM", "timer"))
            /\ emitted' = Append(emitted, Event("error", <<"timeout">>))
       ELSE UNCHANGED <<isKilled, signals, emitted>>
  /\ UNCHANGED <<process, child, procBuffer, started, stdoutAll, nData, exitCode>>
  /\ UNCHANGED httpVars

\* kill(signal) without the test of isKilled.
Kill_unguarded ==
  /\ process # "null"
  /\ \E sig \in Signals :
       /\ isKilled' = TRUE
       /\ timeoutId' = clearTimeout(timeoutId)
       /\ signals' = Append(signals, KillCall(sig, "kill"))
  /\ UNCHANGED <<process, child, procBuffer, emitted, started, stdoutAll, nData,
                 exitCode>>
  /\ UNCHANGED httpVars

\* kill(signal), called by the owner of the reader at any time.
Kill ==
  /\ \E sig \in Signals :
       IF ~isKilled /\ process # "null"
         THEN /\ isKilled' = TRUE
              /\ timeoutId' = clearTimeout(timeoutId)
              /\ signals' = Append(signals, KillCall(sig, "kill"))
         ELSE UNCHANGED <<isKilled, timeoutId, signals>>
  /\ UNCHANGED <<process, child, procBuffer, emitted, started, stdoutAll, nData,
                 exitCode>>
  /\ UNCHANGED httpVars

\* The child's "error" event after a failed spawn: the timer is cleared and
\* reject() is called on the promise that start() has already resolved.
SpawnError ==
  /\ child = "failing"
  /\ child' = "errored"
  /\ timeoutId' = clearTimeout(timeoutId)
  /\ started' = IF started = "pending" THEN "rejected" ELSE started
  /\ exitCode' = SpawnErrno
  /\ UNCHANGED <<process, procBuffer, isKilled, emitted, signals, stdoutAll, nData>>
  /\ UNCHANGED httpVars

\* The child process exits, by itself or by a signal (code null); its
\* streams may still hold data.
ChildExit ==
  /\ child = "running"
  /\ child' = "exited"
  /\ \E code \in ExitCodes : exitCode' = code
  /\ UNCHANGED <<process, procBuffer, timeoutId, isKilled, emitted, signals,
                 started, stdoutAll, nData>>
  /\ UNCHANGED httpVars

\* A chunk of the child's stdout arrives.
StdoutData ==
  /\ child \in {"running", "exited"}
  /\ nData < MaxData
  /\ \E chunk \in ProcChunks :
       LET d == onStdoutData(procBuffer, chunk)
       IN /\ procBuffer' = d.buffer
          /\ emitted' = emitted \o d.events
          /\ stdoutAll' = stdoutAll \o chunk
  /\ nData' = nData + 1
  /\ UNCHANGED <<process, child, timeoutId, isKilled, signals, started, exitCode>>
  /\ UNCHANGED httpVars

\* A "close" handler that leaves the timer armed.
ProcClose_keepTimer ==
  /\ child \in {"exited", "errored"}
  /\ child' = "closed"
  /\ LET c == onClose(procBuffer, exitCode)
     IN /\ procBuffer' = c.buffer
        /\ emitted' = emitted \o c.events
  /\ UNCHANGED <<process, timeoutId, isKilled, signals, started, stdoutAll, nData,
                 exitCode>>
  /\ UNCHANGED httpVars

\* The child's "close" event, with the child's code: the process has ended
\* and its streams are closed.
ProcClose ==
  /\ child \in {"exited", "errored"}
  /\ child' = "closed"
  /\ timeoutId' = clearTimeout(timeoutId)
  /\ LET c == onClose(procBuffer, exitCode)
     IN /\ procBuffer' = c.buffer
        /\ emitted' = emitted \o c.events
  /\ UNCHANGED <<process, isKilled, signals, started, stdoutAll, nData, exitCode>>
  /\ UNCHANGED httpVars

NextSub ==
  \/ Start
  \/ Timeout
  \/ Kill
  \/ SpawnError
  \/ ChildExit
  \/ StdoutData
  \/ ProcClose

SpecSub == InitSub /\ [][NextSub]_vars

(***************************************************************************)
(* Definitions the claims are stated with.                                 *)
(***************************************************************************)
FramesOfType(frames, t) == SelectSeq(frames, LAMBDA f : f.t = t)

Positions(frames, t) == {i \in 1..Len(frames) : frames[i].t = t}

RECURSIVE Texts(_)
Texts(frames) ==
  IF frames = <<>> THEN <<>> ELSE <<Head(frames).text>> \o Texts(Tail(frames))

\* Request r is a streaming request that passed the validation: its response
\* has begun as an event stream.
Streaming(r) == stream[r] /\ shape[r] = "array"

\* The upstream events of a byte stream, read off the whole stream at once:
\* one per line that is terminated by a newline and is "data: " followed by
\* one JSON document.
IsEventLine(line) == Len(line) = 2 /\ line[1] = "D" /\ line[2] \in JsonAtoms

RECURSIVE EventsOfLines(_)
EventsOfLines(lines) ==
  IF lines = <<>> THEN <<>>
  ELSE (IF IsEventLine(Head(lines)) THEN <<Events[Head(lines)[2]]>> ELSE <<>>)
         \o EventsOfLines(Tail(lines))

UpstreamEvents(bytes) == EventsOfLines(Front(SplitNL(bytes)))

\* d1..dn: the texts of the content-delta events, in arrival order.
Deltas(bytes) ==
  Texts(SelectSeq(UpstreamEvents(bytes),
                  LAMBDA e : e.type = "content_block_delta"))

NonEmptyDeltas(bytes) == SelectSeq(Deltas(bytes), LAMBDA d : d # "")

\* The failures of an upstream call that happen before any upstream data
\* is received.
EarlyFailures == {"nocreds", "expired", "network", "status", "nobody"}

ErrorEnvelope500(resp) ==
  /\ resp.statusCode = 500
  /\ resp.contentType = "json"
  /\ resp.json.kind = "error"

(***************************************************************************)
(* C1.  A streaming request whose upstream call fails before any upstream  *)
(* data is received (credentials missing or expired, network failure,      *)
(* non-2xx status) is answered with HTTP 500 and the error envelope, not   *)
(* with a 200 text/event-stream response; an SSE error frame is written    *)
(* only when the failure happens after streaming has begun.                *)
(***************************************************************************)
C1_EarlyFailureIs500 ==
  \A r \in Requests :
    /\ (stream[r] /\ pc[r] = "done" /\ failure[r] \in EarlyFailures)
         => (ErrorEnvelope500(res[r]) /\ res[r].frames = <<>>)
    /\ (Positions(res[r].frames, "error") # {}) => failure[r] = "read"

(***************************************************************************)
(* C2.  As claimed: in every finished streaming request the role frame is  *)
(* written exactly once, whatever the upstream event sequence was.         *)
(***************************************************************************)
C2_RoleExactlyOnce ==
  \A r \in Requests :
    (Streaming(r) /\ pc[r] = "done")
      => Cardinality(Positions(res[r].frames, "role")) = 1

(***************************************************************************)
(* C2, amended.  In every state of a streaming request the role frame is   *)
(* written at most once; it is written exactly when at least one           *)
(* content-delta with non-empty text has been received, and it then        *)
(* immediately precedes the first content frame.                           *)
(***************************************************************************)
C2_RoleOnceBeforeContent ==
  \A r \in Requests :
    Streaming(r) =>
      LET roles == Positions(res[r].frames, "role")
          contents == Positions(res[r].frames, "content")
      IN /\ Cardinality(roles) <= 1
         /\ (roles # {}) <=> (NonEmptyDeltas(upRecv[r]) # <<>>)
         /\ \A i \in roles : /\ i + 1 \in contents
                             /\ \A j \in contents : i < j

C2_Witness ==
  \E r \in Requests :
    /\ Cardinality(Positions(res[r].frames, "content")) >= 2
    /\ Cardinality(Positions(res[r].frames, "role")) = 1
    /\ pc[r] = "done"

(***************************************************************************)
(* C3.  The content frames carry, one frame per delta and in arrival       *)
(* order, the texts of the content-delta events received so far (so their  *)
(* concatenation is d1+...+dn; a delta whose text is empty adds nothing    *)
(* to it and gets no frame), and before the terminal frames nothing else   *)
(* is written than ":ok", the role frame and the content frames:           *)
(* message-start and message-delta events produce no frame.                *)
(***************************************************************************)
C3_ContentInOrder ==
  \A r \in Requests :
    Streaming(r) =>
      LET texts == NonEmptyDeltas(upRecv[r])
          body == SelectSeq(res[r].frames,
                            LAMBDA f : f.t \notin {"finish", "[DONE]", "error"})
      IN /\ Texts(FramesOfType(res[r].frames, "content")) = texts
         /\ body = <<Frame("ok", "")>>
                     \o (IF texts = <<>> THEN <<>> ELSE <<Frame("role", "")>>)
                     \o [i \in 1..Len(texts) |-> Frame("content", texts[i])]
         /\ session[r].fullText = texts

\* A line cut before its newline has been completed by the next chunk, which
\* also carried a whole line and the start of a third one.
C3_Witness ==
  \E r \in Requests :
    /\ Texts(FramesOfType(res[r].frames, "content")) = <<"a", "a">>
    /\ session[r].buffer = <<"D", "cb">>
    /\ nRead[r] = 2

(***************************************************************************)
(* C4.  A streaming request whose upstream stream ended normally has       *)
(* exactly one finish frame with finish_reason "stop", immediately         *)
(* followed by exactly one "data: [DONE]" frame, which is the last frame,  *)
(* and its response is ended; no frame follows them in any later state;    *)
(* a request that failed has neither frame.                                *)
(***************************************************************************)
C4_SuccessExitOnce ==
  \A r \in Requests :
    LET frames == res[r].frames
        fin == Positions(frames, "finish")
        don == Positions(frames, "[DONE]")
    IN /\ (Streaming(r) /\ pc[r] = "done" /\ failure[r] = "")
            => /\ fin = {Len(frames) - 1}
               /\ don = {Len(frames)}
               /\ frames[Len(frames) - 1].text = "stop"
               /\ res[r].ended
       /\ (fin # {} \/ don # {})
            => (fin = {Len(frames) - 1} /\ don = {Len(frames)} /\ res[r].ended)
       /\ failure[r] # "" => (fin = {} /\ don = {})

C4_Witness ==
  \E r \in Requests :
    /\ pc[r] = "done" /\ failure[r] = "" /\ Streaming(r)
    /\ Positions(res[r].frames, "content") # {}
    /\ Positions(res[r].frames, "finish") # {}

(***************************************************************************)
(* C5.  A failure of a streaming response that has begun is answered by    *)
(* exactly one SSE error frame, which is the last frame, and the response  *)
(* is ended; the status stays the 200 that was sent and no JSON body is    *)
(* sent.                                                                   *)
(***************************************************************************)
C5_FailureInBand ==
  \A r \in Requests :
    Streaming(r) =>
      /\ res[r].statusCode = 200
      /\ res[r].contentType = "sse"
      /\ res[r].json = NoJson
      /\ failure[r] # ""
           => /\ Positions(res[r].frames, "error") = {Len(res[r].frames)}
              /\ Last(res[r].frames).text = failure[r]
              /\ res[r].ended

C5_Witness ==
  \E r \in Requests :
    /\ failure[r] = "read"
    /\ Positions(res[r].frames, "content") # {}
    /\ Positions(res[r].frames, "error") # {}

(***************************************************************************)
(* C6.  After the client has disconnected, no frame is written to the      *)
(* response.                                                               *)
(***************************************************************************)
C6_NoWriteAfterDisconnect ==
  [][\A r \in Requests :
       (~connected[r] /\ ~connected'[r]) => res'[r].frames = res[r].frames]_vars

(***************************************************************************)
(* C7.  A request whose messages field is missing, not an array, or empty  *)
(* is answered with HTTP 400 and error.code "invalid_messages", and no     *)
(* credential resolution and no upstream call is made for it.              *)
(***************************************************************************)
C7_InvalidMessagesIs400 ==
  \A r \in Requests :
    shape[r] \in {"missing", "notArray", "arrayLike", "empty"}
      => /\ res[r].statusCode = 400
         /\ res[r].json.kind = "error"
         /\ res[r].json.code = "invalid_messages"
         /\ credCalls[r] = 0
         /\ fetchCalls[r] = 0

(***************************************************************************)
(* C8.  The turn sequence of every upstream request is non-empty.          *)
(***************************************************************************)
C8_TurnsNonEmpty ==
  \A r \in Requests : upReq[r].sent => Len(upReq[r].messages) > 0

(***************************************************************************)
(* C9.  For a non-empty body.messages, the turn sequence convertMessages   *)
(* returns never starts with an assistant turn: when the first of the      *)
(* user/assistant turns of the input is an assistant turn, the output is   *)
(* the placeholder user turn followed by those turns; otherwise it is      *)
(* those turns, 1:1 and in their order.                                    *)
(***************************************************************************)
C9_LeadingTurn ==
  \A r \in Requests :
    upReq[r].sent =>
      LET in == upReq[r].from
          out == upReq[r].messages
          idx == {i \in 1..Len(in) : in[i].role \in {"user", "assistant"}}
          first == CHOOSE i \in idx : \A j \in idx : i <= j
          lead == IF idx # {} /\ in[first].role = "assistant" THEN 1 ELSE 0
      IN /\ out # <<>> => out[1].role # "assistant"
         /\ Len(out) = Cardinality(idx) + lead
         /\ lead = 1 => out[1] = Placeholder
         /\ \A k \in 1..Cardinality(idx) :
              \E i \in idx : /\ Cardinality({j \in idx : j <= i}) = k
                             /\ out[k + lead] = in[i]

C9_Witness ==
  \E r \in Requests :
    /\ upReq[r].sent
    /\ Len(upReq[r].from) = 2
    /\ upReq[r].from[1].role = "system"
    /\ upReq[r].from[2].role = "assistant"
    /\ Len(upReq[r].messages) = 2

(***************************************************************************)
(* C10.  When the child's "close" event finds non-blank text in the line   *)
(* buffer (text without a trailing newline), the events of that text as a  *)
(* line are emitted, and then the close event.                             *)
(***************************************************************************)
C10_FinalLineEmitted ==
  [][(child # "closed" /\ child' = "closed" /\ Trim(procBuffer) # <<>>)
       => \E code \in ExitCodes :
            emitted' = emitted \o LineEvents(procBuffer)
                               \o <<Event("close", <<code>>)>>]_vars

\* The events the reader emits for the child's output: all but close and
\* error.
DataEvents(evs) == SelectSeq(evs, LAMBDA e : e.t \notin {"close", "error"})

\* Text without anything that stripAnsi removes.
Plain(text) == stripAnsi(text) = text

(***************************************************************************)
(* C11.  Whatever chunks the child's output arrived in, the events emitted *)
(* for it are those emitted when the whole output arrives in one chunk.    *)
(* Stated for output without control sequences, so that no sequence is cut *)
(* by a chunk boundary.                                                    *)
(***************************************************************************)
C11_ChunkingIndependent ==
  Plain(stdoutAll)
    => DataEvents(emitted) = onStdoutData(<<>>, stdoutAll).events

\* callAnthropicStream of a streaming request that receives its whole
\* payload in one chunk.
DecodeWhole(bytes) ==
  ReadChunkStep([s |-> NewSession, r |-> StreamOpen(NewRes)], bytes)

\* The values onDone is called with.
DoneValues(s) ==
  [model |-> s.model, inputTokens |-> s.inputTokens, outputTokens |-> s.outputTokens]

(***************************************************************************)
(* C12.  However the payload received so far was cut into chunks, and so   *)
(* in particular when it was cut in two at a line boundary, the onChunk    *)
(* calls made and the values onDone gets are those of the same payload     *)
(* delivered in one chunk.                                                 *)
(***************************************************************************)
C12_SplitAtLineBoundary ==
  \A r \in Requests :
    (Streaming(r) /\ nRead[r] >= 1) =>
      LET one == DecodeWhole(upRecv[r])
      IN /\ session[r].fullText = one.s.fullText
         /\ FramesOfType(res[r].frames, "content")
              = FramesOfType(one.r.frames, "content")
         /\ DoneValues(session[r]) = DoneValues(one.s)

\* Two chunks, the first one ending with a newline, and the stream ended.
C12_Witness ==
  \E r \in Requests :
    /\ nRead[r] = 2
    /\ upRecv[r] = <<"D", "ms", NL, "D", "ca", NL>>
    /\ DoneValues(session[r]) = [model |-> "upstream", inputTokens |-> 3, outputTokens |-> 0]
    /\ pc[r] = "done"
    /\ Positions(res[r].frames, "finish") # {}

\* The arguments of the events of type t, in order.
ArgsOfType(evs, t) ==
  LET sel == SelectSeq(evs, LAMBDA e : e.t = t)
  IN [i \in 1..Len(sel) |-> sel[i].arg]

\* The complete lines of a text, trimmed.
TrimmedLines(text) ==
  LET lines == Front(SplitNL(text))
  IN [i \in 1..Len(lines) |-> Trim(lines[i])]

(***************************************************************************)
(* C13.  The raw events emitted are, one each and in order, the complete   *)
(* lines of the child's output that are not blank and not valid JSON, each *)
(* event carrying its line's (trimmed) text; the message events are, in    *)
(* order, the complete lines that are valid JSON, whatever lines precede   *)
(* them.  Stated for output without control sequences.                     *)
(***************************************************************************)
C13_OneRawPerBadLine ==
  Plain(stdoutAll) =>
    LET lines == TrimmedLines(stdoutAll)
    IN /\ ArgsOfType(emitted, "raw")
            = SelectSeq(lines, LAMBDA l : l # <<>> /\ ~IsJson(l))
       /\ ArgsOfType(emitted, "message") = SelectSeq(lines, LAMBDA l : IsJson(l))

\* A malformed frame: a "data: " line whose data is neither one JSON
\* document nor the sentinel.
IsMalformed(line) ==
  /\ Len(line) >= 1
  /\ line[1] = "D"
  /\ Tail(line) # <<"[DONE]">>
  /\ ~IsEventLine(line)

RECURSIVE JoinNL(_)
JoinNL(lines) ==
  IF lines = <<>> THEN <<>> ELSE Head(lines) \o <<NL>> \o JoinNL(Tail(lines))

\* The byte stream with its complete malformed lines removed.
WithoutMalformed(bytes) ==
  LET lines == SplitNL(bytes)
  IN JoinNL(SelectSeq(Front(lines), LAMBDA l : ~IsMalformed(l))) \o Last(lines)

(***************************************************************************)
(* C14.  In every state of a streaming request, the session and the        *)
(* response are those the same upstream text gives with its malformed      *)
(* frames removed: the frames written, the outcome (finish and [DONE]      *)
(* frames after a normal end), and an error frame only for a failure of    *)
(* the credentials, of fetch or of the read, never for a malformed frame.  *)
(***************************************************************************)
C14_MalformedFramesSkipped ==
  \A r \in Requests :
    Streaming(r) =>
      LET d == DecodeWhole(WithoutMalformed(upRecv[r]))
      IN /\ session[r] = d.s
         /\ res[r] = IF pc[r] # "done" THEN d.r
                     ELSE IF failure[r] = "" THEN onDone(d.r)
                     ELSE StreamCatch(d.r, failure[r])
         /\ failure[r] \in {""} \cup EarlyFailures \cup {"read"}

\* A malformed frame came first, a content frame after it, and the stream
\* ended normally.
C14_Witness ==
  \E r \in Requests :
    /\ upRecv[r] = <<"D", "xx", NL, "D", "ca", NL>>
    /\ pc[r] = "done"
    /\ failure[r] = ""
    /\ Texts(FramesOfType(res[r].frames, "content")) = <<"a">>
    /\ res[r].ended

TimeoutError == Event("error", <<"timeout">>)

\* The number of timeout error events among evs.
TimeoutErrors(evs) == Len(SelectSeq(evs, LAMBDA e : e = TimeoutError))

\* The timer has expired while the child was running, and has signalled it.
TimerSignalled ==
  \E i \in 1..Len(signals) : signals[i].by = "timer" /\ signals[i].delivered

(***************************************************************************)
(* C15.  When the timer expires while the child is running, SIGTERM is     *)
(* sent to the child and the timeout error event is emitted; from then on  *)
(* there is exactly one timeout error event, and no step (so no call of    *)
(* kill()) sends another signal or emits another error event.              *)
(***************************************************************************)
C15_TimeoutOnce ==
  [][/\ (timeoutId = "armed" /\ timeoutId' = "fired" /\ child = "running")
          => /\ signals' = Append(signals, [sig |-> "SIGTERM", by |-> "timer",
                                            delivered |-> TRUE])
             /\ emitted' = Append(emitted, TimeoutError)
             /\ isKilled'
     /\ TimerSignalled
          => /\ signals' = signals
             /\ TimeoutErrors(emitted) = 1
             /\ ArgsOfType(emitted', "error") = ArgsOfType(emitted, "error")]_vars

\* The timer expired on a running, silent child, which then ended.
C15_Witness ==
  /\ TimerSignalled
  /\ stdoutAll = <<>>
  /\ isKilled
  /\ child = "closed"
  /\ exitCode = "null"

\* The step calls process.kill on behalf of `by`.
KillCalled(by) == Len(signals') > Len(signals) /\ Last(signals').by = by

(***************************************************************************)
(* C16.  Once the child process has exited (its streams closed or not),    *)
(* no step lets the timer call process.kill and no step emits a timeout    *)
(* error event.                                                            *)
(***************************************************************************)
C16_NoTimeoutAfterExit ==
  [][(child \in {"exited", "closed"})
       => (~KillCalled("timer")
             /\ TimeoutErrors(emitted') = TimeoutErrors(emitted))]_vars

(***************************************************************************)
(* C17.  A call of kill() that finds the process already signalled (by     *)
(* kill() or by the timer) or already exited does not get to               *)
(* process.kill; if it does, it at least reaches no child and leaves       *)
(* isKilled, the timer and the buffer as they are.                         *)
(***************************************************************************)
C17_KillIdempotent ==
  [][((isKilled \/ child \in {"exited", "closed"}) /\ KillCalled("kill"))
       => (/\ ~Last(signals').delivered
           /\ isKilled' = isKilled
           /\ timeoutId' = timeoutId
           /\ procBuffer' = procBuffer)]_vars

(***************************************************************************)
(* C18.  The close event is emitted at most once, it has been emitted      *)
(* exactly when the child's "close" has happened, it carries the child's   *)
(* exit code, and it is the last event emitted in every later state,       *)
(* whatever timer expiry or kill() calls follow.                           *)
(***************************************************************************)
C18_CloseOnceAndLast ==
  LET closes == {i \in 1..Len(emitted) : emitted[i].t = "close"}
  IN /\ Cardinality(closes) <= 1
     /\ (child = "closed") <=> (closes # {})
     /\ closes \subseteq {Len(emitted)}
     /\ closes # {} => Last(emitted).arg = <<exitCode>>

\* The child printed a line and exited with code 1, a kill() came after its
\* exit, and the close event has been emitted.
C18_Witness ==
  /\ child = "closed"
  /\ exitCode = "1"
  /\ Len(emitted) >= 3
  /\ Last(emitted) = Event("close", <<"1">>)
  /\ isKilled
  /\ signals # <<>>
  /\ ~Last(signals).delivered

(***************************************************************************)
(* C19.  When the child could not be spawned and its "error" event has     *)
(* been handled, an error event for it (one that is not the timeout error) *)
(* has been emitted.                                                       *)
(***************************************************************************)
C19_SpawnFailureReported ==
  exitCode = SpawnErrno
    => \E i \in 1..Len(emitted) :
         emitted[i].t = "error" /\ emitted[i] # TimeoutError

\* The step is a request's call of getValidCredentials.
CredentialsCalled(r) == credCalls[r] = 0 /\ credCalls'[r] = 1

(***************************************************************************)
(* C20.  A call of getValidCredentials that finds valid credentials in the *)
(* cache uses them (their token goes into the upstream request) and never  *)
(* fails for lack of credentials, whatever the sources hold now; a call    *)
(* that finds the cache empty or no longer valid gets what the sources     *)
(* hold: it fails when they hold nothing or something not valid, and       *)
(* otherwise uses and caches it.  The cache changes only to credentials    *)
(* that are valid at that time; a failed call leaves it as it was.         *)
(***************************************************************************)
C20_CacheDiscipline ==
  [][\A r \in Requests :
       /\ CredentialsCalled(r) =>
            IF ~IsNull(cachedCreds) /\ isValid(cachedCreds, now)
              THEN /\ cachedCreds' = cachedCreds
                   /\ failure'[r] = ""
                   /\ upReq'[r].sent
                   /\ upReq'[r].token = cachedCreds.accessToken
            ELSE IF IsNull(store)
              THEN failure'[r] = "nocreds" /\ cachedCreds' = cachedCreds
            ELSE IF ~isValid(store, now)
              THEN failure'[r] = "expired" /\ cachedCreds' = cachedCreds
            ELSE /\ cachedCreds' = store
                 /\ failure'[r] = ""
                 /\ upReq'[r].token = store.accessToken
       /\ cachedCreds' # cachedCreds
            => (~IsNull(cachedCreds') /\ isValid(cachedCreds', now'))]_vars

\* The clock has advanced, the sources have been emptied since the cache
\* was filled, and a request has been sent with the cached token.
C20_Witness ==
  \E r \in Requests :
    /\ now = FiveMinutes
    /\ store = NoCreds
    /\ cachedCreds.expiresAt = 3 * FiveMinutes
    /\ upReq[r].sent
    /\ upReq[r].token = "oat"

\* The credentials a call of getValidCredentials resolves: the cached ones
\* while they are valid, else what the sources hold.
Resolved == IF ~IsNull(cachedCreds) /\ isValid(cachedCreds, now) THEN cachedCreds ELSE store

(***************************************************************************)
(* C21.  A call of getValidCredentials succeeds only with credentials that *)
(* pass isValid at that time, and the upstream request carries their       *)
(* token; it fails with the credentials-missing error when nothing is      *)
(* resolved and with the credentials-expired error when what is resolved   *)
(* is not valid, and then no upstream request is sent for the request.     *)
(***************************************************************************)
C21_OnlyValidCredentials ==
  [][\A r \in Requests :
       CredentialsCalled(r) =>
         /\ failure'[r] \in {"", "nocreds", "expired"}
         /\ (failure'[r] = "nocreds") <=> IsNull(Resolved)
         /\ (failure'[r] = "expired") <=> (~IsNull(Resolved) /\ ~isValid(Resolved, now))
         /\ failure'[r] = ""
              => /\ upReq'[r].sent
                 /\ upReq'[r].token = Resolved.accessToken
                 /\ fetchCalls'[r] = 1
         /\ failure'[r] # ""
              => /\ ~upReq'[r].sent
                 /\ fetchCalls'[r] = 0
                 /\ pc'[r] = "done"]_vars

\* A stale cache, expired credentials in the sources, and a request that
\* failed for it without an upstream call.
C21_Witness ==
  \E r \in Requests :
    /\ failure[r] = "expired"
    /\ ~IsNull(cachedCreds)
    /\ ~isValid(cachedCreds, now)
    /\ credCalls[r] = 1
    /\ fetchCalls[r] = 0
    /\ pc[r] = "done"

(***************************************************************************)
(* C22.  When getValidCredentials applies isValid to what the sources hold *)
(* (the cache is empty and the sources hold credentials), the credentials  *)
(* are accepted exactly when they carry no expiry or carry one with        *)
(* now + 5 minutes < expiresAt.                                            *)
(***************************************************************************)
C22_ValidityRule ==
  [][\A r \in Requests :
       (CredentialsCalled(r) /\ IsNull(cachedCreds) /\ ~IsNull(store))
         => ((failure'[r] = "")
               <=> (~store.hasExpiry \/ now + FiveMinutes < store.expiresAt))]_vars

\* Request r is where it would be had it run alone: its session and its
\* response are those of its own upstream text.
Alone(r) ==
  Streaming(r) =>
    LET d == DecodeWhole(upRecv[r])
    IN /\ session[r] = d.s
       /\ res[r] = IF pc[r] # "done" THEN d.r
                   ELSE IF failure[r] = "" THEN onDone(d.r)
                   ELSE StreamCatch(d.r, failure[r])

\* The step is not a step of request r's handler.
NotHandling(r) == pc'[r] = pc[r] /\ nRead'[r] = nRead[r]

(***************************************************************************)
(* C23.  With two streaming requests in flight, after every step each      *)
(* request's session and frames are those it has when it runs alone, and a *)
(* step that handles one request leaves the session (first-chunk flag,     *)
(* accumulated text, line buffer), the frames and the received text of the *)
(* other request as they are.                                              *)
(***************************************************************************)
C23_RequestsIsolated ==
  /\ [](\A r \in Requests : Alone(r))
  /\ [][\A r \in Requests :
          NotHandling(r) => /\ session'[r] = session[r]
                            /\ res'[r] = res[r]
                            /\ upRecv'[r] = upRecv[r]]_vars

\* Both requests are in their read loops, each has got its first content
\* delta, and the two have received different texts.
C23_Witness ==
  /\ pc[1] = "read"
  /\ pc[2] = "read"
  /\ Texts(FramesOfType(res[1].frames, "content")) = <<"a", "b">>
  /\ Texts(FramesOfType(res[2].frames, "content")) = <<"b">>
  /\ session[2].buffer = <<"D", "ca">>

(***************************************************************************)
(* C24.  Between the handlers of the reader (after every stdout chunk and  *)
(* after the close event) the line buffer contains no newline.             *)
(***************************************************************************)
C24_NoNewlineInBuffer ==
  \A i \in 1..Len(procBuffer) : procBuffer[i] # NL

\* A chunk with a complete line and the start of the next one has been
\* drained: the start of the next line is what the buffer holds.
C24_Witness ==
  /\ stdoutAll = <<"jd", NL, "jr">>
  /\ procBuffer = <<"jr">>
  /\ child = "closed"

ClassEvents == {"content_delta", "assistant", "result"}

\* The classification event of a decoded line: the first shape that
\* matches, in the order content-delta, assistant-message, result.
FirstMatch(doc) ==
  IF isContentDelta(doc) THEN "content_delta"
  ELSE IF isAssistantMessage(doc) THEN "assistant"
  ELSE IF isResultMessage(doc) THEN "result"
  ELSE "none"

(***************************************************************************)
(* C25.  Every message event (one per decoded line) is followed by the     *)
(* event of the first shape its line matches, in the order content-delta,  *)
(* assistant-message, result, carrying the same line, or by no             *)
(* classification event when no shape matches; and every classification    *)
(* event directly follows the message event of its line.  So a line emits  *)
(* at most one of the three, and a line of both the content-delta and the  *)
(* assistant-message shape emits content_delta and not assistant.          *)
(***************************************************************************)
C25_FirstMatchWins ==
  \A i \in 1..Len(emitted) :
    /\ emitted[i].t = "message"
         => IF FirstMatch(emitted[i].arg) = "none"
              THEN i = Len(emitted) \/ emitted[i + 1].t \notin ClassEvents
              ELSE /\ i < Len(emitted)
                   /\ emitted[i + 1] = Event(FirstMatch(emitted[i].arg), emitted[i].arg)
    /\ emitted[i].t \in ClassEvents
         => /\ i > 1
            /\ emitted[i - 1] = Event("message", emitted[i].arg)

\* A line of both the content-delta and the assistant-message shape, and a
\* line of both the assistant-message and the result shape, have been read.
C25_Witness ==
  /\ emitted = <<Event("message", <<"jda">>), Event("content_delta", <<"jda">>),
                 Event("message", <<"jar">>), Event("assistant", <<"jar">>)>>

(***************************************************************************)
(* C26.  When the upstream stream has ended normally, every "data: " line  *)
(* of the received text has been handled, the last one also when no        *)
(* newline ends it: the onChunk calls, the content frames and the values   *)
(* of onDone are those of the received text with its last line completed.  *)
(***************************************************************************)
C26_FinalLineProcessed ==
  \A r \in Requests :
    (Streaming(r) /\ pc[r] = "done" /\ failure[r] = "") =>
      LET all == DecodeWhole(upRecv[r] \o <<NL>>)
      IN /\ session[r].fullText = all.s.fullText
         /\ FramesOfType(res[r].frames, "content")
              = FramesOfType(all.r.frames, "content")
         /\ DoneValues(session[r]) = DoneValues(all.s)

\* The chunk the step delivers to the stdout handler.
StdoutChunk == SubSeq(stdoutAll', Len(stdoutAll) + 1, Len(stdoutAll'))

====
